---- MODULE Spec2Model ----
(***************************************************************************)
(* Throttle-position sensing of the vehicle control unit:                  *)
(*   - the Sensor objects Sensor_TPS0 / Sensor_TPS1       (sensors.h)      *)
(*   - getPercent, calibrateTPS, GetThrottlePosition (outputCalculations)  *)
(* Sensor fields are ubyte2 (16-bit unsigned); the percentages are float4  *)
(* (IEEE-754 binary32, round to nearest even), modelled bit-exactly as     *)
(* mantissa/exponent pairs, with infinities and NaN.                       *)
(***************************************************************************)
EXTENDS Integers, Sequences, FiniteSets, TLC

(***************************************************************************)
(* Bounds of the model.                                                    *)
(***************************************************************************)
\* in the control cycle, and where getPercent and GetThrottlePosition are
\* applied to calibrated objects, raw samples range over 0..MaxSample
MaxSample == 5
\* in the program with calibrateTPS statement by statement, the main loop
\* deposits the samples 0..MaxDeposit and the extreme values of a ubyte2
MaxDeposit == 2
\* GetThrottlePosition as a function is applied to Sensor objects whose
\* sample and calibration bounds range over 0..MaxEvalSample
MaxEvalSample == 4
\* calibrateTPS is called with secondsToRunCalibration in 0..MaxSeconds
MaxSeconds == 1
\* the real-time clock is observed in steps of TickUS microseconds
TickUS == 500000
\* the unit conversions are applied to whole frequencies 0..MaxFreq (Hz) and
\* whole rotation rates 0..MaxRpm (rotations per minute)
MaxFreq == 32
MaxRpm == 60

(***************************************************************************)
(* float4: IEEE-754 binary32.                                              *)
(*   [k |-> "fin", m, e]  the number m * 2^e, m = 0 (then e = 0) or        *)
(*                        2^23 <= |m| < 2^24                               *)
(*   [k |-> "inf", m, e]  m = 1: +infinity, m = -1: -infinity              *)
(*   [k |-> "nan", m, e]  not a number                                     *)
(* The sign of zero is not represented (-0.0 == 0.0 in every comparison    *)
(* the code makes); exponents stay far from the under/overflow range.      *)
(***************************************************************************)
Pow2(n) == 2 ^ n

Abs(x) == IF x < 0 THEN -x ELSE x

Sgn(x) == IF x < 0 THEN -1 ELSE IF x > 0 THEN 1 ELSE 0

Min(a, b) == IF a < b THEN a ELSE b

Max(a, b) == IF a > b THEN a ELSE b

FZero == [k |-> "fin", m |-> 0, e |-> 0]

FNaN == [k |-> "nan", m |-> 0, e |-> 0]

FInf(s) == [k |-> "inf", m |-> s, e |-> 0]

\* number of binary digits of n > 0
RECURSIVE BitLen(_)
BitLen(n) == IF n <= 0 THEN 0 ELSE 1 + BitLen(n \div 2)

\* n / 2^s rounded to the nearest integer, ties to even (s >= 0, n >= 0)
RoundShift(n, s) ==
    LET p == Pow2(s)
        q == n \div p
        r == n % p
    IN  IF 2 * r > p \/ (2 * r = p /\ q % 2 = 1) THEN q + 1 ELSE q

\* the binary32 nearest to the integer n times 2^e (|n| < 2^31)
FRound(n, e) ==
    IF n = 0 THEN FZero
    ELSE LET a == Abs(n)
             b == BitLen(a)
         IN  IF b <= 24
             THEN [k |-> "fin", m |-> Sgn(n) * a * Pow2(24 - b), e |-> e - (24 - b)]
             ELSE LET q == RoundShift(a, b - 24)
                  IN  IF q = 2 ^ 24
                      THEN [k |-> "fin", m |-> Sgn(n) * 2 ^ 23, e |-> e + (b - 24) + 1]
                      ELSE [k |-> "fin", m |-> Sgn(n) * q, e |-> e + (b - 24)]

\* conversion of an integer (a ubyte2 field, an int literal) to float4
FromInt(n) == FRound(n, 0)

FNeg(x) == [k |-> x.k, m |-> -x.m, e |-> x.e]

\* |m| / 2^s truncated, its lowest bit set when bits were lost (sticky bit)
StickyShift(m, s) ==
    LET p == Pow2(Min(s, 25))
        q == Abs(m) \div p
        r == Abs(m) % p
    IN  Sgn(m) * (IF r # 0 /\ q % 2 = 0 THEN q + 1 ELSE q)

\* x + y on finite operands: the exact sum, rounded once
FinAdd(x, y) ==
    IF x.m = 0 THEN y
    ELSE IF y.m = 0 THEN x
    ELSE LET hi == IF x.e >= y.e THEN x ELSE y
             lo == IF x.e >= y.e THEN y ELSE x
             gap == hi.e - lo.e
         IN  IF gap <= 6
             THEN FRound(hi.m * Pow2(gap) + lo.m, lo.e)
             ELSE FRound(hi.m * 64 + StickyShift(lo.m, gap - 6), hi.e - 6)

FAdd(x, y) ==
    IF x.k = "nan" \/ y.k = "nan" THEN FNaN
    ELSE IF x.k = "inf" /\ y.k = "inf" THEN (IF x.m = y.m THEN x ELSE FNaN)
    ELSE IF x.k = "inf" THEN x
    ELSE IF y.k = "inf" THEN y
    ELSE FinAdd(x, y)

FSub(x, y) == FAdd(x, FNeg(y))

\* long division: bits more quotient digits of rem / d, appended to quot
RECURSIVE DivBits(_, _, _, _)
DivBits(rem, d, quot, bits) ==
    IF bits = 0 THEN <<quot, rem>>
    ELSE IF 2 * rem >= d
         THEN DivBits(2 * rem - d, d, 2 * quot + 1, bits - 1)
         ELSE DivBits(2 * rem, d, 2 * quot, bits - 1)

\* n / d for mantissas 2^23 <= n, d < 2^24, correctly rounded to binary32:
\* 24 quotient digits by long division, then round to nearest, ties to even
FinDivPos(n, d) ==
    LET less == n < d
        nn == IF less THEN 2 * n ELSE n
        qr == DivBits(nn - d, d, 1, 23)
        q == qr[1]
        r == qr[2]
        up == 2 * r > d \/ (2 * r = d /\ q % 2 = 1)
    IN  FRound(IF up THEN q + 1 ELSE q, (IF less THEN -1 ELSE 0) - 23)

FDiv(x, y) ==
    IF x.k = "nan" \/ y.k = "nan" THEN FNaN
    ELSE IF x.k = "inf" THEN (IF y.k = "inf" THEN FNaN
                              ELSE FInf(x.m * (IF y.m < 0 THEN -1 ELSE 1)))
    ELSE IF y.k = "inf" THEN FZero
    ELSE IF y.m = 0 THEN (IF x.m = 0 THEN FNaN ELSE FInf(Sgn(x.m)))
    ELSE IF x.m = 0 THEN FZero
    ELSE LET r == FinDivPos(Abs(x.m), Abs(y.m))
         IN  [k |-> "fin", m |-> Sgn(x.m) * Sgn(y.m) * r.m, e |-> r.e + x.e - y.e]

\* x < y; every comparison with a NaN is false
FLt(x, y) ==
    IF x.k = "nan" \/ y.k = "nan" THEN FALSE
    ELSE IF x.k = "inf" THEN x.m = -1 /\ ~(y.k = "inf" /\ y.m = -1)
    ELSE IF y.k = "inf" THEN y.m = 1
    ELSE LET sx == Sgn(x.m)
             sy == Sgn(y.m)
         IN  IF sx # sy THEN sx < sy
             ELSE IF sx = 0 THEN FALSE
             ELSE IF sx > 0 THEN x.e < y.e \/ (x.e = y.e /\ x.m < y.m)
             ELSE x.e > y.e \/ (x.e = y.e /\ x.m < y.m)

FGt(x, y) == FLt(y, x)

\* fabs
FAbs(x) == [k |-> x.k, m |-> Abs(x.m), e |-> x.e]


\* the largest binary32 below the double constant .1 (0x3DCCCCCC); the next
\* binary32, 0x3DCCCCCD, is above it, so for a float4 x promoted to double,
\* x > .1 holds exactly when x exceeds this value
TenthBelow == [k |-> "fin", m |-> 13421772, e |-> -27]

GtTenth(x) == FGt(x, TenthBelow)

(***************************************************************************)
(* Sensor objects (sensors.h).  The fields are ubyte2.                     *)
(***************************************************************************)
\* conversion of a double initializer to ubyte2: the fraction is discarded.
\* The initializer is given in tenths (0.5 is 5, 4.5 is 45).
DoubleToUbyte2(tenths) == tenths \div 10

\* Sensor x = { canMessageIdOffset, specMin, specMax }: the members that are
\* not named are zero-initialised
NewSensor(minTenths, maxTenths) ==
    [canMessageIdOffset |-> 0,
     specMin |-> DoubleToUbyte2(minTenths),
     specMax |-> DoubleToUbyte2(maxTenths),
     isCalibrated |-> FALSE,
     calibMin |-> 0,
     calibMax |-> 0,
     calibNormal |-> 0,
     sensorValue |-> 0,
     fresh |-> FALSE,
     calibratedValue |-> 0]

\* Sensor Sensor_TPS0 = { 0, 0.5, 4.5 };
InitTPS0 == NewSensor(5, 45)

\* variant: the two spec-range initializers in the order of Sensor_TPS0
InitTPS1_Ordered == NewSensor(5, 45)

\* Sensor Sensor_TPS1 = { 0, 4.5, 0.5 };
InitTPS1 == NewSensor(45, 5)

\* the other Sensor objects of sensors.h, by name:
\* Sensor x = { canMessageIdOffset } leaves the spec range at zero
WithId(id, s) == [s EXCEPT !.canMessageIdOffset = id]

InitOtherSensors ==
    [n \in {"Sensor_BPS0", "Sensor_WSS_FL", "Sensor_WSS_FR", "Sensor_WSS_RL",
            "Sensor_WSS_RR", "Sensor_WPS_FL", "Sensor_WPS_FR", "Sensor_WPS_RL",
            "Sensor_WPS_RR", "Sensor_LVBattery"} |->
        CASE n = "Sensor_BPS0" -> WithId(1, NewSensor(5, 45))
          [] n \in {"Sensor_WSS_FL", "Sensor_WSS_FR", "Sensor_WSS_RL",
                    "Sensor_WSS_RR"} -> WithId(3, NewSensor(0, 0))
          [] n \in {"Sensor_WPS_FL", "Sensor_WPS_FR", "Sensor_WPS_RL",
                    "Sensor_WPS_RR"} -> WithId(4, NewSensor(0, 0))
          [] OTHER -> WithId(10, NewSensor(0, 0))]

\* sensorValue is a ubyte2: the greatest value whose top bit is clear, and
\* the greatest value
ExtremeSamples == {32767, 65535}

Samples == 0..MaxSample

Deposits == (0..MaxDeposit) \cup ExtremeSamples

VARIABLES
    Sensor_TPS0,              \* the Sensor object of torque encoder 0
    Sensor_TPS1,              \* the Sensor object of torque encoder 1
    pc,                       \* the statement calibrateTPS is at, or "idle"
    secondsToRunCalibration,  \* the argument of the running calibrateTPS
    elapsedUS,                \* IO_RTC_GetTimeUS(timestamp_calibrationstart)
    observed,                 \* least/greatest sample the loop of the running
                              \* calibrateTPS has read, per sensor (-1: none)
    returned,                 \* GetThrottlePosition has just returned
    throttle,                 \* the value it returned (0 once the caller took it)
    TPSErrorState,            \* TPSErrorState at that return
    faultedBefore,            \* the call before that one had counted an error
    call,                     \* a call of getPercent or of a unit conversion:
                              \* its arguments and, once it returned, its value
    OtherSensors              \* the Sensor objects other than the two above

vars == <<Sensor_TPS0, Sensor_TPS1, pc, secondsToRunCalibration, elapsedUS,
          observed, returned, throttle, TPSErrorState, faultedBefore, call,
          OtherSensors>>

NoSample == 0 - 1

NoneObserved == [min0 |-> NoSample, max0 |-> NoSample,
                 min1 |-> NoSample, max1 |-> NoSample]

\* no call of getPercent (on its own) or of a unit conversion is in progress
NoCall == [fn |-> "none"]

(***************************************************************************)
(* getPercent                                                              *)
(***************************************************************************)
\* variant: the divisor is max, not max - min
getPercent_NoOffset(value, min, max, zeroToOneOnly) ==
    LET retVal == FDiv(FSub(FromInt(value), FromInt(min)), FromInt(max))
    IN  IF zeroToOneOnly
        THEN IF FGt(retVal, FromInt(1)) THEN FromInt(1)
             ELSE IF FLt(retVal, FromInt(0)) THEN FromInt(0)
             ELSE retVal
        ELSE retVal

getPercent(value, min, max, zeroToOneOnly) ==
    LET retVal == FDiv(FSub(FromInt(value), FromInt(min)),
                       FSub(FromInt(max), FromInt(min)))
    IN  IF zeroToOneOnly
        THEN IF FGt(retVal, FromInt(1)) THEN FromInt(1)
             ELSE IF FLt(retVal, FromInt(0)) THEN FromInt(0)
             ELSE retVal
        ELSE retVal

\* a call getPercent(value, min, max, zeroToOneOnly) returns
getPercent_Call ==
    /\ call.fn = "getPercent"
    /\ ~call.done
    /\ call' = [call EXCEPT !.done = TRUE,
                            !.retVal = getPercent(call.value, call.min, call.max,
                                                  call.zeroToOneOnly)]
    /\ UNCHANGED <<OtherSensors, Sensor_TPS0, Sensor_TPS1, pc, secondsToRunCalibration,
                   elapsedUS, observed, returned, throttle, TPSErrorState,
                   faultedBefore>>

(***************************************************************************)
(* GetThrottlePosition                                                     *)
(***************************************************************************)
\* variant: the upper bound is not checked
OutOfRange_NoUpper(s) == s.sensorValue < s.specMin

\* (sensorValue < specMin) || (sensorValue > specMax)
OutOfRange(s) == (s.sensorValue < s.specMin) \/ (s.sensorValue > s.specMax)

PedalPercent(s) == getPercent(s.sensorValue, s.calibMin, s.calibMax, FALSE)

\* variant: the difference is compared without fabs
Implausible_Signed(p0, p1) == GtTenth(FSub(p1, p0))

\* fabs(TPS1PedalPercent - TPS0PedalPercent) > .1
Implausible(p0, p1) == GtTenth(FAbs(FSub(p1, p0)))

\* variant: && in place of ||
NotCalibrated_Both(s0, s1) == (s0.isCalibrated = FALSE) /\ (s1.isCalibrated = FALSE)

\* (Sensor_TPS0.isCalibrated == FALSE) || (Sensor_TPS1.isCalibrated == FALSE)
NotCalibrated(s0, s1) == (s0.isCalibrated = FALSE) \/ (s1.isCalibrated = FALSE)

Count(b) == IF b THEN 1 ELSE 0

\* variant: the sum of the two percentages is returned, not their mean
Evaluate_Sum(s0, s1) ==
    LET TPS0PedalPercent == PedalPercent(s0)
        TPS1PedalPercent == PedalPercent(s1)
        errors == Count(OutOfRange(s0)) + Count(OutOfRange(s1))
                  + Count(Implausible(TPS0PedalPercent, TPS1PedalPercent))
                  + Count(NotCalibrated(s0, s1))
    IN  [TPSErrorState |-> errors,
         value |-> IF errors > 0
                   THEN FromInt(0)
                   ELSE FAdd(TPS0PedalPercent, TPS1PedalPercent)]

\* one call: TPSErrorState when the function reaches its last if, and the
\* value returned
Evaluate(s0, s1) ==
    LET TPS0PedalPercent == PedalPercent(s0)
        TPS1PedalPercent == PedalPercent(s1)
        errors == Count(OutOfRange(s0)) + Count(OutOfRange(s1))
                  + Count(Implausible(TPS0PedalPercent, TPS1PedalPercent))
                  + Count(NotCalibrated(s0, s1))
    IN  [TPSErrorState |-> errors,
         value |-> IF errors > 0
                   THEN FromInt(0)
                   ELSE FDiv(FAdd(TPS0PedalPercent, TPS1PedalPercent), FromInt(2))]

\* variant: a sensor found out of its spec range is marked as not calibrated
GetThrottlePosition_Marks ==
    LET r == Evaluate(Sensor_TPS0, Sensor_TPS1)
        Mark(s) == IF OutOfRange(s) THEN [s EXCEPT !.isCalibrated = FALSE] ELSE s
    IN  /\ ~returned
        /\ returned' = TRUE
        /\ throttle' = r.value
        /\ TPSErrorState' = r.TPSErrorState
        /\ faultedBefore' = (TPSErrorState > 0)
        /\ Sensor_TPS0' = Mark(Sensor_TPS0)
        /\ Sensor_TPS1' = Mark(Sensor_TPS1)
        /\ UNCHANGED <<OtherSensors, call, pc, secondsToRunCalibration, elapsedUS, observed>>

\* variant: TPSErrorState keeps its value from one call to the next (a static
\* that is not reset), so an error counted by an earlier call still counts
GetThrottlePosition_Latched ==
    LET r == Evaluate(Sensor_TPS0, Sensor_TPS1)
        errors == (TPSErrorState + r.TPSErrorState) % 256
    IN  /\ ~returned
        /\ returned' = TRUE
        /\ throttle' = (IF errors > 0 THEN FromInt(0) ELSE r.value)
        /\ TPSErrorState' = errors
        /\ faultedBefore' = (TPSErrorState > 0)
        /\ UNCHANGED <<OtherSensors, call, Sensor_TPS0, Sensor_TPS1, pc, secondsToRunCalibration,
                       elapsedUS, observed>>

\* one call at a time: the caller has taken the value of the previous call
\* (or has seen the samples change) before it calls again
GetThrottlePosition ==
    LET r == Evaluate(Sensor_TPS0, Sensor_TPS1)
    IN  /\ ~returned
        /\ returned' = TRUE
        /\ throttle' = r.value
        /\ TPSErrorState' = r.TPSErrorState
        /\ faultedBefore' = (TPSErrorState > 0)
        /\ UNCHANGED <<OtherSensors, call, Sensor_TPS0, Sensor_TPS1, pc, secondsToRunCalibration,
                       elapsedUS, observed>>

\* the caller has taken the returned value
Taken ==
    /\ returned' = FALSE
    /\ throttle' = FromInt(0)
    /\ TPSErrorState' = 0
    /\ faultedBefore' = FALSE

(***************************************************************************)
(* The main loop deposits the raw samples into sensorValue.                *)
(***************************************************************************)
SetSensorValue0 ==
    \E v \in Deposits :
        /\ v # Sensor_TPS0.sensorValue
        /\ Sensor_TPS0' = [Sensor_TPS0 EXCEPT !.sensorValue = v]
        /\ Taken
        /\ UNCHANGED <<OtherSensors, call, Sensor_TPS1, pc, secondsToRunCalibration, elapsedUS,
                       observed>>

SetSensorValue1 ==
    \E v \in Deposits :
        /\ v # Sensor_TPS1.sensorValue
        /\ Sensor_TPS1' = [Sensor_TPS1 EXCEPT !.sensorValue = v]
        /\ Taken
        /\ UNCHANGED <<OtherSensors, call, Sensor_TPS0, pc, secondsToRunCalibration, elapsedUS,
                       observed>>

(***************************************************************************)
(* calibrateTPS, statement by statement (the labels are source lines).     *)
(***************************************************************************)
calibrateTPS_Call ==
    \E s \in 0..MaxSeconds :
        /\ pc = "idle"
        /\ pc' = "L78"
        /\ secondsToRunCalibration' = s
        /\ Taken
        /\ UNCHANGED <<OtherSensors, call, Sensor_TPS0, Sensor_TPS1, elapsedUS, observed>>

\* variant: calibMin is reset to specMin
Reset_L78_SpecMin ==
    /\ pc = "L78"
    /\ pc' = "L79"
    /\ Sensor_TPS0' = [Sensor_TPS0 EXCEPT !.calibMin = Sensor_TPS0.specMin]
    /\ Taken
    /\ UNCHANGED <<OtherSensors, call, Sensor_TPS1, secondsToRunCalibration, elapsedUS, observed>>

\* Sensor_TPS0.calibMin = Sensor_TPS0.specMax;
Reset_L78 ==
    /\ pc = "L78"
    /\ pc' = "L79"
    /\ Sensor_TPS0' = [Sensor_TPS0 EXCEPT !.calibMin = Sensor_TPS0.specMax]
    /\ Taken
    /\ UNCHANGED <<OtherSensors, call, Sensor_TPS1, secondsToRunCalibration, elapsedUS, observed>>

\* Sensor_TPS0.calibMax = Sensor_TPS0.specMin;
Reset_L79 ==
    /\ pc = "L79"
    /\ pc' = "L80"
    /\ Sensor_TPS0' = [Sensor_TPS0 EXCEPT !.calibMax = Sensor_TPS0.specMin]
    /\ Taken
    /\ UNCHANGED <<OtherSensors, call, Sensor_TPS1, secondsToRunCalibration, elapsedUS, observed>>

\* Sensor_TPS0.isCalibrated = FALSE;
Reset_L80 ==
    /\ pc = "L80"
    /\ pc' = "L81"
    /\ Sensor_TPS0' = [Sensor_TPS0 EXCEPT !.isCalibrated = FALSE]
    /\ Taken
    /\ UNCHANGED <<OtherSensors, call, Sensor_TPS1, secondsToRunCalibration, elapsedUS, observed>>

\* Sensor_TPS1.calibMin = Sensor_TPS1.specMax;
Reset_L81 ==
    /\ pc = "L81"
    /\ pc' = "L82"
    /\ Sensor_TPS1' = [Sensor_TPS1 EXCEPT !.calibMin = Sensor_TPS1.specMax]
    /\ Taken
    /\ UNCHANGED <<OtherSensors, call, Sensor_TPS0, secondsToRunCalibration, elapsedUS, observed>>

\* Sensor_TPS1.calibMax = Sensor_TPS1.specMin;
Reset_L82 ==
    /\ pc = "L82"
    /\ pc' = "L83"
    /\ Sensor_TPS1' = [Sensor_TPS1 EXCEPT !.calibMax = Sensor_TPS1.specMin]
    /\ Taken
    /\ UNCHANGED <<OtherSensors, call, Sensor_TPS0, secondsToRunCalibration, elapsedUS, observed>>

\* Sensor_TPS1.isCalibrated = FALSE;
Reset_L83 ==
    /\ pc = "L83"
    /\ pc' = "L86"
    /\ Sensor_TPS1' = [Sensor_TPS1 EXCEPT !.isCalibrated = FALSE]
    /\ Taken
    /\ UNCHANGED <<OtherSensors, call, Sensor_TPS0, secondsToRunCalibration, elapsedUS, observed>>

\* IO_RTC_StartTime(&timestamp_calibrationstart)
StartTime_L86 ==
    /\ pc = "L86"
    /\ pc' = "L88"
    /\ elapsedUS' = 0
    /\ Taken
    /\ UNCHANGED <<OtherSensors, call, Sensor_TPS0, Sensor_TPS1, secondsToRunCalibration, observed>>

\* a * b in ubyte4 arithmetic (modulo 2^32), for a < 2^31 and b < 2^16, by
\* 16-bit halves; a product of 2^31 or more is beyond the integers of the
\* checker, which reports it as an overflow
MulU32(a, b) ==
    LET lo == (a % 65536) * b
        hi == ((a \div 65536) * b + lo \div 65536) % 65536
    IN  hi * 65536 + (lo % 65536)

\* variant: without the cast the product is computed in int, 16 bits wide on
\* the controller
DurationUS_Int16(s) == (s * 1000 * 1000) % 65536

\* (ubyte4)secondsToRunCalibration * 1000 * 1000
DurationUS(s) == MulU32(MulU32(s, 1000), 1000)

\* variant: a sample outside the spec range is not recorded
RecordMinMax_InSpec(s) ==
    IF (s.sensorValue < s.specMin) \/ (s.sensorValue > s.specMax) THEN s
    ELSE LET a == IF s.sensorValue < s.calibMin
                  THEN [s EXCEPT !.calibMin = s.sensorValue] ELSE s
         IN  IF a.sensorValue > a.calibMax
             THEN [a EXCEPT !.calibMax = a.sensorValue] ELSE a

\* the two ifs of the loop body for one sensor
RecordMinMax(s) ==
    LET a == IF s.sensorValue < s.calibMin
             THEN [s EXCEPT !.calibMin = s.sensorValue] ELSE s
    IN  IF a.sensorValue > a.calibMax
        THEN [a EXCEPT !.calibMax = a.sensorValue] ELSE a

Observe(lo, hi, v) == <<IF lo = NoSample THEN v ELSE Min(lo, v), Max(hi, v)>>

\* the loop condition holds: one pass through the loop body
Loop_L88 ==
    /\ pc = "L88"
    /\ elapsedUS < DurationUS(secondsToRunCalibration)
    /\ Sensor_TPS0' = RecordMinMax(Sensor_TPS0)
    /\ Sensor_TPS1' = RecordMinMax(Sensor_TPS1)
    /\ observed' =
         LET o0 == Observe(observed.min0, observed.max0, Sensor_TPS0.sensorValue)
             o1 == Observe(observed.min1, observed.max1, Sensor_TPS1.sensorValue)
         IN  [min0 |-> o0[1], max0 |-> o0[2], min1 |-> o1[1], max1 |-> o1[2]]
    /\ Taken
    /\ UNCHANGED <<OtherSensors, call, pc, secondsToRunCalibration, elapsedUS>>

\* the loop condition fails
Exit_L88 ==
    /\ pc = "L88"
    /\ ~(elapsedUS < DurationUS(secondsToRunCalibration))
    /\ pc' = "L113"
    /\ Taken
    /\ UNCHANGED <<OtherSensors, call, Sensor_TPS0, Sensor_TPS1, secondsToRunCalibration, elapsedUS,
                   observed>>

\* variant: the commit also narrows the spec range to the recorded range
Commit_L113_NarrowSpec ==
    /\ pc = "L113"
    /\ pc' = "L114"
    /\ Sensor_TPS0' = [Sensor_TPS0 EXCEPT !.isCalibrated = TRUE,
                                          !.specMin = Sensor_TPS0.calibMin,
                                          !.specMax = Sensor_TPS0.calibMax]
    /\ Taken
    /\ UNCHANGED <<OtherSensors, call, Sensor_TPS1, secondsToRunCalibration,
                   elapsedUS, observed>>

\* Sensor_TPS0.isCalibrated = TRUE;
Commit_L113 ==
    /\ pc = "L113"
    /\ pc' = "L114"
    /\ Sensor_TPS0' = [Sensor_TPS0 EXCEPT !.isCalibrated = TRUE]
    /\ Taken
    /\ UNCHANGED <<OtherSensors, call, Sensor_TPS1, secondsToRunCalibration, elapsedUS, observed>>

\* Sensor_TPS1.isCalibrated = TRUE;
Commit_L114 ==
    /\ pc = "L114"
    /\ pc' = "L117"
    /\ Sensor_TPS1' = [Sensor_TPS1 EXCEPT !.isCalibrated = TRUE]
    /\ Taken
    /\ UNCHANGED <<OtherSensors, call, Sensor_TPS0, secondsToRunCalibration, elapsedUS, observed>>

\* the function returns; its argument and locals are gone
Return_L117 ==
    /\ pc = "L117"
    /\ pc' = "idle"
    /\ secondsToRunCalibration' = 0
    /\ elapsedUS' = 0
    /\ observed' = NoneObserved
    /\ Taken
    /\ UNCHANGED <<OtherSensors, call, Sensor_TPS0, Sensor_TPS1>>

\* the real-time clock advances while the loop polls it
Tick ==
    /\ pc = "L88"
    /\ elapsedUS < MaxSeconds * 1000000
    /\ elapsedUS' = elapsedUS + TickUS
    /\ Taken
    /\ UNCHANGED <<OtherSensors, call, Sensor_TPS0, Sensor_TPS1, pc, secondsToRunCalibration,
                   observed>>

\* the next statement of a running calibrateTPS
calibrateTPS_Step ==
    \/ Reset_L78 \/ Reset_L79 \/ Reset_L80
    \/ Reset_L81 \/ Reset_L82 \/ Reset_L83
    \/ StartTime_L86
    \/ Loop_L88 \/ Exit_L88
    \/ Commit_L113 \/ Commit_L114
    \/ Return_L117

calibrateTPS == calibrateTPS_Call \/ calibrateTPS_Step

(***************************************************************************)
(* double: IEEE-754 binary64, for the wheel speed conversions.  The 53-bit  *)
(* mantissa does not fit a machine integer of the checker, so it is a       *)
(* natural number in base 2^15, least significant limb first, without       *)
(* leading zero limbs (<<>> is 0):  [m |-> limbs, e |-> e]  is  m * 2^e.    *)
(* The conversions take and return non-negative finite values.              *)
(***************************************************************************)
Limb == 2 ^ 15

RECURSIVE BigFromInt(_)
BigFromInt(n) == IF n = 0 THEN <<>> ELSE <<n % Limb>> \o BigFromInt(n \div Limb)

\* a * k + carry, for 0 <= k, carry < 2^16
RECURSIVE BigMulAdd(_, _, _)
BigMulAdd(a, k, carry) ==
    IF a = <<>> THEN BigFromInt(carry)
    ELSE LET t == Head(a) * k + carry
             rest == BigMulAdd(Tail(a), k, t \div Limb)
         IN  IF rest = <<>> /\ t % Limb = 0 THEN <<>> ELSE <<t % Limb>> \o rest

\* <<a \div k, a % k>>, for 0 < k < 2^16
RECURSIVE BigDivRem(_, _)
BigDivRem(a, k) ==
    IF a = <<>> THEN <<<<>>, 0>>
    ELSE LET hi == BigDivRem(Tail(a), k)
             t == hi[2] * Limb + Head(a)
         IN  <<IF hi[1] = <<>> /\ t \div k = 0 THEN <<>> ELSE <<t \div k>> \o hi[1],
               t % k>>

BigBitLen(a) == IF a = <<>> THEN 0 ELSE 15 * (Len(a) - 1) + BitLen(a[Len(a)])

\* a * 2^s
RECURSIVE BigShl(_, _)
BigShl(a, s) ==
    IF a = <<>> THEN <<>>
    ELSE IF s >= 15 THEN <<0>> \o BigShl(a, s - 15)
    ELSE BigMulAdd(a, 2 ^ s, 0)

\* <<a \div 2^s, TRUE iff a % 2^s # 0>>
RECURSIVE BigShr(_, _)
BigShr(a, s) ==
    IF a = <<>> THEN <<<<>>, FALSE>>
    ELSE IF s >= 15
         THEN LET r == BigShr(Tail(a), s - 15)
              IN  <<r[1], r[2] \/ Head(a) # 0>>
         ELSE LET qr == BigDivRem(a, 2 ^ s)
              IN  <<qr[1], qr[2] # 0>>

BigOdd(a) == a # <<>> /\ Head(a) % 2 = 1

\* a + b
RECURSIVE BigAdd(_, _, _)
BigAdd(a, b, carry) ==
    IF a = <<>> /\ b = <<>> THEN BigFromInt(carry)
    ELSE LET x == IF a = <<>> THEN 0 ELSE Head(a)
             y == IF b = <<>> THEN 0 ELSE Head(b)
             t == x + y + carry
         IN  <<t % Limb>> \o BigAdd(IF a = <<>> THEN <<>> ELSE Tail(a),
                                    IF b = <<>> THEN <<>> ELSE Tail(b),
                                    t \div Limb)

\* a < b
RECURSIVE BigLess(_, _)
BigLess(a, b) ==
    IF Len(a) # Len(b) THEN Len(a) < Len(b)
    ELSE IF a = <<>> THEN FALSE
    ELSE LET n == Len(a)
         IN  IF a[n] # b[n] THEN a[n] < b[n]
             ELSE BigLess(SubSeq(a, 1, n - 1), SubSeq(b, 1, n - 1))

DZero == [m |-> <<>>, e |-> 0]

\* the binary64 nearest to n * 2^e (ties to even), its mantissa normalised
\* to 53 bits
DRound(n, e) ==
    IF n = <<>> THEN DZero
    ELSE LET b == BigBitLen(n)
         IN  IF b <= 53
             THEN [m |-> BigShl(n, 53 - b), e |-> e - (53 - b)]
             ELSE LET s == b - 53
                      q1 == BigShr(n, s - 1)
                      q == BigShr(q1[1], 1)[1]
                      up == BigOdd(q1[1]) /\ (q1[2] \/ BigOdd(q))
                      r == IF up THEN BigMulAdd(q, 1, 1) ELSE q
                  IN  IF BigBitLen(r) = 54
                      THEN [m |-> BigShr(r, 1)[1], e |-> e + s + 1]
                      ELSE [m |-> r, e |-> e + s]

\* (double)n for an integer n >= 0
DFromInt(n) == DRound(BigFromInt(n), 0)

\* the 16 leading bits of a 53-bit mantissa whose other 37 bits are zero (an
\* operand with at most 16 significant bits: 16.0, 60.0, 63360.0, a small
\* whole number)
Short(x) ==
    LET t == BigShr(x.m, 37)[1]
    IN  t[1] + Limb * t[2]

IsShort(x) == x.m # <<>> /\ ~BigShr(x.m, 37)[2]

\* x * y, one of the operands short: the exact product, rounded once
DMul(x, y) ==
    IF x.m = <<>> \/ y.m = <<>> THEN DZero
    ELSE IF IsShort(y)
         THEN DRound(BigMulAdd(x.m, Short(y), 0), x.e + y.e + 37)
         ELSE DRound(BigMulAdd(y.m, Short(x), 0), x.e + y.e + 37)

\* x / y for a short y # 0: at least 55 quotient bits and a sticky bit for
\* the remainder, rounded once
DDiv(x, y) ==
    IF x.m = <<>> THEN DZero
    ELSE LET qr == BigDivRem(BigShl(x.m, 18), Short(y))
         IN  DRound(BigMulAdd(qr[1], 2, IF qr[2] # 0 THEN 1 ELSE 0),
                    x.e - 19 - (y.e + 37))

(***************************************************************************)
(* Wheel speed conversions                                                 *)
(***************************************************************************)
\* #define NUM_BUMPS 16
NUM_BUMPS == 16

\* #define WHEEL_DIAMETER 18 //Inches
WHEEL_DIAMETER == 18

\* the double literal 3.14159265: 7074237743944945 * 2^-51
PiLiteral == [m |-> <<21745, 10129, 2029, 201>>, e |-> 0 - 51]

\* variant: the frequency is multiplied by the seconds of a minute only
freq_to_rpm_NoBumps(freq) == DMul(freq, DFromInt(60))

\* (freq / NUM_BUMPS_D) * 60.0
freq_to_rpm(freq) == DMul(DDiv(freq, DFromInt(NUM_BUMPS)), DFromInt(60))

\* (3.14159265 * WHEEL_DIAMETER_D * rpm * 60.0) / 63360.0
rpm_to_mph(rpm) ==
    DDiv(DMul(DMul(DMul(PiLiteral, DFromInt(WHEEL_DIAMETER)), rpm),
              DFromInt(60)),
         DFromInt(63360))

freq_to_rpm_Call ==
    /\ call.fn = "freq_to_rpm"
    /\ ~call.done
    /\ call' = [call EXCEPT !.done = TRUE,
                            !.retVal = freq_to_rpm(DFromInt(call.arg))]
    /\ UNCHANGED <<OtherSensors, Sensor_TPS0, Sensor_TPS1, pc, secondsToRunCalibration,
                   elapsedUS, observed, returned, throttle, TPSErrorState,
                   faultedBefore>>

rpm_to_mph_Call ==
    /\ call.fn = "rpm_to_mph"
    /\ ~call.done
    /\ call' = [call EXCEPT !.done = TRUE, !.retVal = rpm_to_mph(DFromInt(call.arg))]
    /\ UNCHANGED <<OtherSensors, Sensor_TPS0, Sensor_TPS1, pc, secondsToRunCalibration,
                   elapsedUS, observed, returned, throttle, TPSErrorState,
                   faultedBefore>>

(***************************************************************************)
(* The program, with the sensors as sensors.h instantiates them.           *)
(***************************************************************************)
InitRest ==
    /\ pc = "idle"
    /\ secondsToRunCalibration = 0
    /\ elapsedUS = 0
    /\ observed = NoneObserved
    /\ returned = FALSE
    /\ throttle = FromInt(0)
    /\ TPSErrorState = 0
    /\ faultedBefore = FALSE
    /\ OtherSensors = InitOtherSensors

Init ==
    /\ Sensor_TPS0 = InitTPS0
    /\ Sensor_TPS1 = InitTPS1
    /\ InitRest
    /\ call = NoCall

Next ==
    \/ SetSensorValue0
    \/ SetSensorValue1
    \/ GetThrottlePosition
    \/ calibrateTPS
    \/ Tick

Spec == Init /\ [][Next]_vars

\* the processor goes on executing a running calibrateTPS, and the real-time
\* clock keeps advancing
SpecLive == Init /\ [][Next]_vars /\ WF_vars(calibrateTPS_Step) /\ WF_vars(Tick)


(***************************************************************************)
(* GetThrottlePosition as a function of the two Sensor objects: the        *)
(* objects are drawn from bounded sets and the function is applied once.   *)
(* A configuration gives the values of the fields specMin and specMax the  *)
(* function reads, as initializers in tenths.  The first is the one        *)
(* sensors.h instantiates.  The second, an ordered range on both sensors,  *)
(* is no state of the program: no statement writes specMin or specMax.  It *)
(* widens the arguments of the function, so only properties of every call  *)
(* are checked over it (they then hold of the program's calls as well);    *)
(* no violation is taken from it.                                          *)
(***************************************************************************)
EvalConfigs == { <<<<5, 45>>, <<45, 5>>>>,      \* as sensors.h instantiates them
                 <<<<10, 30>>, <<10, 30>>>> }   \* both 1.0 .. 3.0

EvalSamples == 0..MaxEvalSample

SensorStates(r) ==
    { [NewSensor(r[1], r[2]) EXCEPT !.isCalibrated = c, !.calibMin = lo,
                                    !.calibMax = hi, !.sensorValue = v] :
        c \in BOOLEAN, lo \in EvalSamples, hi \in EvalSamples,
        v \in EvalSamples }

InitEval ==
    /\ \E cfg \in EvalConfigs :
         /\ Sensor_TPS0 \in SensorStates(cfg[1])
         /\ Sensor_TPS1 \in SensorStates(cfg[2])
    /\ InitRest
    /\ call = NoCall

\* the function is applied once to the objects drawn
NextEval == ~returned /\ GetThrottlePosition

SpecEval == InitEval /\ [][NextEval]_vars

(***************************************************************************)
(* The Sensor objects the control cycle finds: the two objects as          *)
(* instantiated (calibrateTPS not called yet), or as a completed run of     *)
(* calibrateTPS leaves them, with the samples the main loop deposited last. *)
(***************************************************************************)
\* the least and the greatest sample the loop of a run read on one sensor
SampleRanges == { q \in Samples \X Samples : q[1] <= q[2] }

\* the loop made no pass (the duration was 0, or had elapsed at the first
\* reading of the clock)
NoPass == <<NoSample, NoSample>>

\* what the loop read on Sensor_TPS0 and on Sensor_TPS1 in one run: every
\* pass reads both, so either both were read or neither
Runs == (SampleRanges \X SampleRanges) \cup {<<NoPass, NoPass>>}

\* Sensor object s after a completed run of calibrateTPS whose loop read lo as
\* the least sample and hi as the greatest (lines 78-83, 95-106, 113-114),
\* v being the sample deposited last
CalibratedBy(s, lo, hi, v) ==
    [s EXCEPT !.calibMin = IF lo = NoSample THEN s.specMax
                           ELSE Min(s.specMax, lo),
              !.calibMax = IF hi = NoSample THEN s.specMin
                           ELSE Max(s.specMin, hi),
              !.isCalibrated = TRUE,
              !.sensorValue = v]

\* the two objects after a completed run, from the objects n0, n1 as
\* instantiated
DrivenPairs(n0, n1) ==
    { <<CalibratedBy(n0, r[1][1], r[1][2], v[1]),
        CalibratedBy(n1, r[2][1], r[2][2], v[2])>> :
        r \in Runs, v \in Samples \X Samples }

\* the two objects before any run
StartupPairs(n0, n1) ==
    { <<[n0 EXCEPT !.sensorValue = v[1]], [n1 EXCEPT !.sensorValue = v[2]]>> :
        v \in Samples \X Samples }

(***************************************************************************)
(* The control cycle: fresh samples are deposited, then GetThrottlePosition *)
(* is called, cycle after cycle; the caller keeps the value of one cycle    *)
(* until the next call returns.                                             *)
(***************************************************************************)
CyclePairs(cfg) ==
    LET n0 == NewSensor(cfg[1][1], cfg[1][2])
        n1 == NewSensor(cfg[2][1], cfg[2][2])
    IN  StartupPairs(n0, n1) \cup DrivenPairs(n0, n1)

InitCycle ==
    /\ \E cfg \in EvalConfigs :
         \E p \in CyclePairs(cfg) :
            /\ Sensor_TPS0 = p[1]
            /\ Sensor_TPS1 = p[2]
    /\ InitRest
    /\ call = NoCall

\* the main loop sets sensorValue of both sensors for the next cycle
DepositSamples ==
    \E v0 \in Samples, v1 \in Samples :
        /\ Sensor_TPS0' = [Sensor_TPS0 EXCEPT !.sensorValue = v0]
        /\ Sensor_TPS1' = [Sensor_TPS1 EXCEPT !.sensorValue = v1]
        /\ returned' = FALSE
        /\ UNCHANGED <<OtherSensors, call, pc, secondsToRunCalibration, elapsedUS, observed,
                       throttle, TPSErrorState, faultedBefore>>

NextCycle == DepositSamples \/ GetThrottlePosition

SpecCycle == InitCycle /\ [][NextCycle]_vars

(***************************************************************************)
(* The vehicle in use: the sensors are the ones sensors.h instantiates, a   *)
(* run of calibrateTPS has completed on them, and the control cycle goes    *)
(* on: samples are deposited and GetThrottlePosition is called, for ever.   *)
(***************************************************************************)
InitDrive ==
    /\ \E p \in DrivenPairs(InitTPS0, InitTPS1) :
         /\ Sensor_TPS0 = p[1]
         /\ Sensor_TPS1 = p[2]
    /\ InitRest
    /\ call = NoCall

\* the main loop goes on depositing samples, and GetThrottlePosition returns
\* again and again
SpecDrive ==
    /\ InitDrive /\ [][NextCycle]_vars
    /\ WF_vars(DepositSamples)
    /\ []<>returned

(***************************************************************************)
(* getPercent as a function: the arguments are drawn from the values the    *)
(* ubyte2 fields of a Sensor take, and the function is applied once.        *)
(***************************************************************************)
PercentCalls ==
    { [fn |-> "getPercent", value |-> v, min |-> lo, max |-> hi,
       zeroToOneOnly |-> z, done |-> FALSE, retVal |-> FZero] :
        v \in Samples, lo \in Samples, hi \in Samples, z \in BOOLEAN }

InitPercent ==
    /\ Sensor_TPS0 = InitTPS0
    /\ Sensor_TPS1 = InitTPS1
    /\ InitRest
    /\ call \in PercentCalls

NextPercent == getPercent_Call

SpecPercent == InitPercent /\ [][NextPercent]_vars

(***************************************************************************)
(* The unit conversions as functions: the argument is drawn from a bounded  *)
(* set of whole numbers and the function is applied once.                   *)
(***************************************************************************)
ConversionCalls ==
    { [fn |-> "freq_to_rpm", arg |-> f, done |-> FALSE, retVal |-> DZero] :
        f \in 0..MaxFreq }
    \cup
    { [fn |-> "rpm_to_mph", arg |-> r, done |-> FALSE, retVal |-> DZero] :
        r \in 0..MaxRpm }

InitConvert ==
    /\ Sensor_TPS0 = InitTPS0
    /\ Sensor_TPS1 = InitTPS1
    /\ InitRest
    /\ call \in ConversionCalls

NextConvert == freq_to_rpm_Call \/ rpm_to_mph_Call

SpecConvert == InitConvert /\ [][NextConvert]_vars


(***************************************************************************)
(* Properties.                                                             *)
(***************************************************************************)
\* spec_min <= last_value <= spec_max
WithinSpec(s) == s.specMin <= s.sensorValue /\ s.sensorValue <= s.specMax

BothWithinSpec == WithinSpec(Sensor_TPS0) /\ WithinSpec(Sensor_TPS1)

BothCalibrated == Sensor_TPS0.isCalibrated /\ Sensor_TPS1.isCalibrated

\* the calibration span calib_max - calib_min
Span(s) == s.calibMax - s.calibMin

\* the two normalized fractions, as getPercent returns them
P0 == getPercent(Sensor_TPS0.sensorValue, Sensor_TPS0.calibMin,
                 Sensor_TPS0.calibMax, FALSE)

P1 == getPercent(Sensor_TPS1.sensorValue, Sensor_TPS1.calibMin,
                 Sensor_TPS1.calibMax, FALSE)

\* the common exponent two finite binary32 are aligned to, and |x - y| and
\* x + y in units of 2^AlignExp
AlignExp(x, y) == Min(x.e, y.e)

AlignedDiff(x, y) ==
    Abs(x.m * 2 ^ (x.e - AlignExp(x, y)) - y.m * 2 ^ (y.e - AlignExp(x, y)))

AlignedSum(x, y) ==
    x.m * 2 ^ (x.e - AlignExp(x, y)) + y.m * 2 ^ (y.e - AlignExp(x, y))

\* |x - y| > 1/10 in exact arithmetic, for finite x and y: with d the
\* difference in units of 2^-n, d / 2^n > 1/10 iff d > floor(2^n / 10)
DifferByMoreThanTenth(x, y) ==
    AlignedDiff(x, y) > (2 ^ (0 - AlignExp(x, y))) \div 10

\* the binary32 nearest to the exact mean (x + y) / 2
NearestToMean(x, y) == FRound(AlignedSum(x, y), AlignExp(x, y) - 1)

\* 0 <= x <= 1
InUnitInterval(x) == x.k = "fin" /\ ~FLt(x, FromInt(0)) /\ ~FGt(x, FromInt(1))

\* C1: whenever the sample of TPS0 or of TPS1 is outside that sensor's
\* [specMin, specMax], GetThrottlePosition counts one error for each such
\* sensor and returns 0, whatever the other fields of the two sensors are.
C1_OutOfRangeFailSafe ==
    returned =>
        /\ TPSErrorState >= (IF WithinSpec(Sensor_TPS0) THEN 0 ELSE 1)
                            + (IF WithinSpec(Sensor_TPS1) THEN 0 ELSE 1)
        /\ (~BothWithinSpec => throttle = FZero)

\* C1 witness: the only error is the sample of TPS0 above specMax (both
\* sensors calibrated, TPS1 within its range, the percentages agreeing)
C1_Witness ==
    /\ returned
    /\ Sensor_TPS0.sensorValue > Sensor_TPS0.specMax
    /\ WithinSpec(Sensor_TPS1)
    /\ BothCalibrated
    /\ Span(Sensor_TPS0) > 0 /\ Span(Sensor_TPS1) > 0
    /\ TPSErrorState = 1
    /\ throttle = FZero

\* C2: if isCalibrated is false for TPS0 or for TPS1, GetThrottlePosition
\* returns 0 (and has counted an error), for every combination of samples and
\* calibration bounds, a zero calibration span included.
C2_UncalibratedFailSafe ==
    (returned /\ ~BothCalibrated) => (throttle = FZero /\ TPSErrorState >= 1)

\* C2 witness: TPS0 is uncalibrated with a zero span, nothing else is wrong
C2_Witness ==
    /\ returned
    /\ ~Sensor_TPS0.isCalibrated
    /\ Sensor_TPS1.isCalibrated
    /\ Span(Sensor_TPS0) = 0
    /\ BothWithinSpec
    /\ TPSErrorState = 1
    /\ throttle = FZero

\* C3: if both sensors are calibrated, both samples are within their spec
\* range, and the two normalized fractions differ by more than 1/10,
\* GetThrottlePosition counts the discrepancy (the only error) and returns 0.
C3_DiscrepancyFailSafe ==
    (/\ returned
     /\ BothCalibrated
     /\ BothWithinSpec
     /\ P0.k = "fin" /\ P1.k = "fin"
     /\ DifferByMoreThanTenth(P0, P1))
    => (throttle = FZero /\ TPSErrorState = 1)

\* C3 witness: a discrepancy with TPS0 reading the larger fraction
C3_Witness ==
    /\ returned
    /\ BothCalibrated
    /\ BothWithinSpec
    /\ P0.k = "fin" /\ P1.k = "fin"
    /\ DifferByMoreThanTenth(P0, P1)
    /\ FGt(P0, P1)
    /\ TPSErrorState = 1

\* C4: if both sensors are calibrated, both samples are within their spec
\* range and the two normalized fractions (the values getPercent returns)
\* differ by at most 1/10, GetThrottlePosition counts no error and returns
\* their arithmetic mean (the binary32 nearest to it).
C4_AgreeingMean ==
    (/\ returned
     /\ BothCalibrated
     /\ BothWithinSpec
     /\ P0.k = "fin" /\ P1.k = "fin"
     /\ ~DifferByMoreThanTenth(P0, P1))
    => (TPSErrorState = 0 /\ throttle = NearestToMean(P0, P1))

\* C4 witness: two different fractions within the tolerance, a non-zero mean
C4_Witness ==
    /\ returned
    /\ BothCalibrated
    /\ BothWithinSpec
    /\ P0.k = "fin" /\ P1.k = "fin"
    /\ ~DifferByMoreThanTenth(P0, P1)
    /\ P0 # P1
    /\ TPSErrorState = 0
    /\ throttle # FZero

C9_ZeroSpanFailSafe ==
    (call.fn = "getPercent" /\ call.done /\ call.min = call.max)
    => call.retVal.k = "fin"

\* calibrateTPS has made its first write and has not completed
CalibrationRunning ==
    pc \in {"L79", "L80", "L81", "L82", "L83", "L86", "L88", "L113", "L114"}

\* C6 (as claimed): between the first write of calibrateTPS and its
\* completion, GetThrottlePosition never finds isCalibrated true on both
\* sensors, and what it returns is 0.
C6_RunSeenUncalibrated ==
    CalibrationRunning => (~BothCalibrated /\ (returned => throttle = FZero))

\* C7 (as claimed): when calibrateTPS completes after its loop has read
\* samples, each sensor is calibrated, with calibMin the least and calibMax
\* the greatest sample the loop read from it.
C7_CommitsObservedMinMax ==
    (pc = "L117" /\ observed.min0 # NoSample) =>
        /\ BothCalibrated
        /\ Sensor_TPS0.calibMin = observed.min0
        /\ Sensor_TPS0.calibMax = observed.max0
        /\ Sensor_TPS1.calibMin = observed.min1
        /\ Sensor_TPS1.calibMax = observed.max1

\* C8 (as claimed): in every state, isCalibrated = TRUE implies
\* calibMax > calibMin.
C8_CalibratedImpliesSpan ==
    /\ Sensor_TPS0.isCalibrated => Sensor_TPS0.calibMax > Sensor_TPS0.calibMin
    /\ Sensor_TPS1.isCalibrated => Sensor_TPS1.calibMax > Sensor_TPS1.calibMin

\* C10 (as claimed): Sensor_TPS0 and Sensor_TPS1 satisfy specMin < specMax in
\* the initial state and in every reachable state.
C10_SpecRangeOrdered ==
    /\ Sensor_TPS0.specMin < Sensor_TPS0.specMax
    /\ Sensor_TPS1.specMin < Sensor_TPS1.specMax

\* the calibration data of the two sensors
Calibration == <<Sensor_TPS0.calibMin, Sensor_TPS0.calibMax, Sensor_TPS0.isCalibrated,
                 Sensor_TPS1.calibMin, Sensor_TPS1.calibMax, Sensor_TPS1.isCalibrated>>

\* C11 (as claimed): a run of calibrateTPS that stops before it commits
\* (before line 113) leaves calibMin, calibMax and isCalibrated of both
\* sensors as they were when the run started, that is, no step of the run
\* up to that point changes them.
C11_AbortKeepsCalibration ==
    [][(pc' \in {"L78", "L79", "L80", "L81", "L82", "L83", "L86", "L88", "L113"})
       => (Calibration' = Calibration)]_vars

\* the fault conditions of the two sensors as they are now
FaultCondition ==
    \/ ~BothWithinSpec
    \/ ~BothCalibrated
    \/ DifferByMoreThanTenth(P0, P1)

\* C12: what GetThrottlePosition returns depends only on the sensors as they
\* are at the call: whatever the calls before it found, it counts exactly the
\* errors that hold now, returns 0 if there is one and the mean of the two
\* fractions if there is none.  With a zero calibration span a fraction is
\* not a number (C9): the discrepancy is then counted or not, and the other
\* errors are counted as they hold now.
C12_NoCarriedFault ==
    returned =>
        LET others == Count(~WithinSpec(Sensor_TPS0))
                      + Count(~WithinSpec(Sensor_TPS1))
                      + Count(~BothCalibrated)
        IN  IF P0.k = "fin" /\ P1.k = "fin"
            THEN /\ TPSErrorState
                      = others + Count(DifferByMoreThanTenth(P0, P1))
                 /\ throttle = (IF FaultCondition THEN FZero
                                ELSE NearestToMean(P0, P1))
            ELSE /\ TPSErrorState \in {others, others + 1}
                 /\ (others > 0 => throttle = FZero)

\* C12 witness: the call before had counted an error, this one counts none
\* and returns a non-zero mean
C12_Witness ==
    /\ returned
    /\ faultedBefore
    /\ ~FaultCondition
    /\ TPSErrorState = 0
    /\ throttle # FZero

\* C13: for min < max and min <= value <= max, getPercent(value, min, max)
\* lies in [0, 1], is 0 at value = min and 1 at value = max, and no greater
\* than what it returns for any larger value up to max.
C13_PercentMonotoneInUnit ==
    (/\ call.fn = "getPercent"
     /\ call.done
     /\ call.min < call.max
     /\ call.min <= call.value /\ call.value <= call.max)
    => /\ InUnitInterval(call.retVal)
       /\ (call.value = call.min => call.retVal = FromInt(0))
       /\ (call.value = call.max => call.retVal = FromInt(1))
       /\ \A w \in Samples :
            (call.value <= w /\ w <= call.max)
            => ~FGt(call.retVal,
                    getPercent(w, call.min, call.max, call.zeroToOneOnly))

\* C13 witness: a value strictly between the bounds, a fraction strictly
\* between 0 and 1
C13_Witness ==
    /\ call.fn = "getPercent"
    /\ call.done
    /\ call.min < call.value /\ call.value < call.max
    /\ FGt(call.retVal, FromInt(0))
    /\ FLt(call.retVal, FromInt(1))

\* C14 (as claimed): calibrateTPS does not block its caller: every pass
\* that updates the min/max of the sensors ends with the function back at its
\* caller, the run going on at the next control cycle.
C14_UpdateThenReturn ==
    [][Loop_L88 => (pc' = "idle")]_vars

\* |a - b| <= max(a, b) / 2^k, for natural numbers a, b in base 2^15
BigWithin(a, b, k) ==
    /\ ~BigLess(BigAdd(BigShl(b, k), b, 0), BigShl(a, k))
    /\ ~BigLess(BigAdd(BigShl(a, k), a, 0), BigShl(b, k))

\* the double d = m * 2^e (e < 0) is within 2^-k (relative) of num / den,
\* den = den1 * den2 * den3:  m * den  against  num * 2^-e
DWithin(d, num, den1, den2, den3, k) ==
    BigWithin(BigMulAdd(BigMulAdd(BigMulAdd(d.m, den1, 0), den2, 0), den3, 0),
              BigShl(num, 0 - d.e), k)

\* C15: freq_to_rpm(f) is f / 16 * 60 (exactly f * 15 / 4 for a whole f, so
\* 16 Hz gives exactly 60), rpm_to_mph(r) is pi * 18 * r * 60 / 63360 with pi
\* the literal 3.14159265 (to the rounding of double, 2^-50, and so within
\* 2^-29 of the value for pi = 3.14159265359), and a call changes nothing but
\* its own result.
C15_ConversionsAsStated ==
    /\ Sensor_TPS0 = InitTPS0 /\ Sensor_TPS1 = InitTPS1
    /\ (call.fn = "freq_to_rpm" /\ call.done)
       => /\ call.retVal = DRound(BigFromInt(15 * call.arg), 0 - 2)
          /\ (call.arg = 16 => call.retVal = DFromInt(60))
    /\ (call.fn = "rpm_to_mph" /\ call.done)
       => IF call.arg = 0 THEN call.retVal = DZero
          ELSE /\ call.retVal.e < 0
               \* 3.14159265 * r * 3 / 176
               /\ DWithin(call.retVal,
                          BigMulAdd(BigFromInt(3 * 314159265), call.arg, 0),
                          176, 10000, 10000, 50)
               \* 3.14159265359 * r * 3 / 176
               /\ DWithin(call.retVal,
                          BigMulAdd(BigMulAdd(BigFromInt(3 * 314159265), 1000, 3 * 359),
                                    call.arg, 0),
                          176 * 100, 50000, 20000, 29)

\* C15 witness: 16 Hz has been converted to 60 rotations per minute
C15_Witness ==
    /\ call.fn = "freq_to_rpm"
    /\ call.done
    /\ call.arg = 16
    /\ call.retVal = DFromInt(60)

\* the calibration data as the first statements of calibrateTPS leave it
ResetState(s) ==
    /\ s.calibMin = s.specMax
    /\ s.calibMax = s.specMin
    /\ s.isCalibrated = FALSE

\* C16: once calibrateTPS has started its clock, and until the loop has
\* made its first pass, each of the two sensors has calibMin = specMax,
\* calibMax = specMin and isCalibrated = FALSE, whatever an earlier run
\* had left.
C16_RunStartsReset ==
    (pc = "L86" \/ (pc = "L88" /\ observed = NoneObserved))
    => (ResetState(Sensor_TPS0) /\ ResetState(Sensor_TPS1))

\* C16 witness: the loop is about to make its first pass, the sample of
\* TPS0 is not yet in the bounds
C16_Witness ==
    /\ pc = "L88"
    /\ observed = NoneObserved
    /\ ResetState(Sensor_TPS0) /\ ResetState(Sensor_TPS1)
    /\ Sensor_TPS0.sensorValue = 2

\* C17 (as claimed, for Sensor_TPS0): when the loop of calibrateTPS has
\* read one sample value s from the sensor and no other, calibMin and
\* calibMax are both s, also for s outside the spec range.
C17_FirstSampleDefinesBoth ==
    (/\ pc = "L88"
     /\ observed.min0 # NoSample
     /\ observed.min0 = observed.max0)
    => (/\ Sensor_TPS0.calibMin = observed.min0
        /\ Sensor_TPS0.calibMax = observed.min0)

\* C18: every pass of the loop of calibrateTPS sets calibMin to
\* min(calibMin, sample) and calibMax to max(calibMax, sample) for each
\* sensor, whether or not the sample is within the spec range, and no step
\* taken while the loop runs raises calibMin or lowers calibMax.
C18_MonotoneAccumulation ==
    [][/\ Loop_L88 =>
           /\ Sensor_TPS0'.calibMin = Min(Sensor_TPS0.calibMin, Sensor_TPS0.sensorValue)
           /\ Sensor_TPS0'.calibMax = Max(Sensor_TPS0.calibMax, Sensor_TPS0.sensorValue)
           /\ Sensor_TPS1'.calibMin = Min(Sensor_TPS1.calibMin, Sensor_TPS1.sensorValue)
           /\ Sensor_TPS1'.calibMax = Max(Sensor_TPS1.calibMax, Sensor_TPS1.sensorValue)
       /\ (pc = "L88") =>
           /\ Sensor_TPS0'.calibMin <= Sensor_TPS0.calibMin
           /\ Sensor_TPS0'.calibMax >= Sensor_TPS0.calibMax
           /\ Sensor_TPS1'.calibMin <= Sensor_TPS1.calibMin
           /\ Sensor_TPS1'.calibMax >= Sensor_TPS1.calibMax]_vars

\* C18 witness: the loop has recorded a sample of TPS0 above its spec range
\* and goes on
C18_Witness ==
    /\ pc = "L88"
    /\ Sensor_TPS0.calibMax > Sensor_TPS0.specMax
    /\ Sensor_TPS0.calibMax = observed.max0
    /\ elapsedUS < DurationUS(secondsToRunCalibration)

\* C19: with the clock advancing, every run of calibrateTPS returns; it is
\* past its loop only with secondsToRunCalibration * 1,000,000 us or more
\* elapsed, it makes no pass of the loop from then on, and that product is
\* computed without wrap-around for every ubyte1 argument.
C19_RunEndsOnTime ==
    /\ (\A d \in 0..255 : DurationUS(d) = d * 1000000)
    /\ [](pc \in {"L113", "L114", "L117"}
           => elapsedUS >= secondsToRunCalibration * 1000000)
    /\ [][Loop_L88 => elapsedUS < secondsToRunCalibration * 1000000]_vars
    /\ ((pc # "idle") ~> (pc = "idle"))

\* C19 witness: a run of one second has committed, a second or more after
\* its start
C19_Witness ==
    /\ pc = "L117"
    /\ secondsToRunCalibration = 1
    /\ elapsedUS >= 1000000
    /\ BothCalibrated

\* C20: a call of GetThrottlePosition leaves every field of Sensor_TPS0 and
\* of Sensor_TPS1 as it was, whether it returns the mean or 0.
C20_EvaluationReadOnly ==
    [][returned' => (Sensor_TPS0' = Sensor_TPS0 /\ Sensor_TPS1' = Sensor_TPS1)]_vars

\* C20 witness: a call has returned a non-zero mean
C20_Witness ==
    /\ returned
    /\ TPSErrorState = 0
    /\ throttle.k = "fin"
    /\ throttle # FZero

\* the spec range of Sensor object t is that of s
SameSpecRange(s, t) == (t.specMin = s.specMin) /\ (t.specMax = s.specMax)

\* Sensor object t differs from s in calibMin, calibMax and isCalibrated at most
\* (the step of C21)
OnlyCalibrationWritten(s, t) ==
    t = [s EXCEPT !.calibMin = t.calibMin, !.calibMax = t.calibMax,
                  !.isCalibrated = t.isCalibrated]

\* C21: no step of the program changes specMin or specMax of any Sensor
\* object; a step of calibrateTPS changes nothing of Sensor_TPS0 and
\* Sensor_TPS1 but calibMin, calibMax and isCalibrated; neither calibrateTPS
\* nor GetThrottlePosition writes sensorValue; and both leave every other
\* Sensor object as it was.
C21_CalibrationFrame ==
    [][/\ SameSpecRange(Sensor_TPS0, Sensor_TPS0')
       /\ SameSpecRange(Sensor_TPS1, Sensor_TPS1')
       /\ \A n \in DOMAIN OtherSensors :
             SameSpecRange(OtherSensors[n], OtherSensors'[n])
       /\ calibrateTPS => /\ OnlyCalibrationWritten(Sensor_TPS0, Sensor_TPS0')
                          /\ OnlyCalibrationWritten(Sensor_TPS1, Sensor_TPS1')
       /\ (calibrateTPS \/ GetThrottlePosition) =>
             /\ Sensor_TPS0'.sensorValue = Sensor_TPS0.sensorValue
             /\ Sensor_TPS1'.sensorValue = Sensor_TPS1.sensorValue
             /\ OtherSensors' = OtherSensors]_vars

\* C21 witness: a run has recorded the samples 1 and 2 the main loop
\* deposited, has committed and returned, and GetThrottlePosition has been
\* called since
C21_Witness ==
    /\ pc = "idle"
    /\ BothCalibrated
    /\ Sensor_TPS0.calibMin = 1 /\ Sensor_TPS0.calibMax = 2
    /\ Sensor_TPS0.sensorValue = 2
    /\ Sensor_TPS1.sensorValue = 1
    /\ returned

\* C23 (as claimed): with the sensors as sensors.h instantiates them, the
\* vehicle in use comes to a state where a calibration run has completed, both
\* samples are within their spec ranges, and GetThrottlePosition has returned
\* a non-zero throttle fraction.
C23_FailSafeNotPermanent ==
    <>(/\ returned
       /\ BothCalibrated
       /\ BothWithinSpec
       /\ throttle # FZero)

====
